---- MODULE Spec2Model ----
(***************************************************************************)
(* Live driver tracking dashboard (HayderHatem/track-swift-rides).         *)
(*                                                                         *)
(* The parts of the program are modelled each with its own                 *)
(* specification over the shared variables:                                *)
(*   Spec      - the driver collection of the DriverTracking page: the     *)
(*               demo seed, the WebSocket onMessage handler, the simulated *)
(*               motion interval and React re-renders;                     *)
(*   SpecStale - the three copies of the staleness check;                  *)
(*   SpecAnim  - MapView's markers and their requestAnimationFrame chains; *)
(*   SpecFloat - the last sample of an animation, in IEEE-754 doubles;     *)
(*   SpecPath  - one animation from its first frame to its last, and the   *)
(*               trace it draws (SpecPathLive: with frames that keep       *)
(*               coming);                                                  *)
(*   SpecWs    - the useWebSocket hook as the DriverTracking page uses it; *)
(*   SpecMap   - the mapboxgl.Map of MapView: the effects that make it and *)
(*               the one that removes it.                                  *)
(*                                                                         *)
(* JavaScript objects are records whose DOMAIN is the set of keys the      *)
(* object has: a missing key reads as `undefined`.  Coordinates are        *)
(* integers in units of 1e-4 degree (33.3152 is 333152); times are         *)
(* milliseconds.                                                           *)
(***************************************************************************)
EXTENDS Integers, Sequences, FiniteSets, TLC

VARIABLES
    drivers,    \* useState<Driver[]>: the latest state, all queued updaters applied
    rendered,   \* the `drivers` value of the last render, closed over by the handlers
    toasts,     \* ids for which "New driver connected" was raised, in order
    now,        \* Date.now()
    nEvents,    \* messages delivered and interval firings so far
    last,       \* the last step: what ran, on which message, over which collection
    stamps      \* which build of the page runs: TRUE stamps lastUpdate (the build with
                \* the Waze tab, src/unnamed/part_004), FALSE does not
                \* (src/src/pages/DriverTracking.tsx); the two are otherwise the same

storeVars == <<drivers, rendered, toasts, now, nEvents, last, stamps>>

VARIABLES
    staleDriver,    \* the Driver a component renders
    staleNow,       \* Date.now() during that render
    staleAnswer     \* what the three copies of the staleness check returned

staleVars == <<staleDriver, staleNow, staleAnswer>>

VARIABLES
    mapDrivers,         \* the drivers prop of MapView at its last effect run
    markers,            \* markers.current: id -> the marker's [lng, lat]
    markerAnimations,   \* markerAnimations.current: id -> requestAnimationFrame handle
    frames,             \* the frame callbacks the browser holds, not yet run or cancelled
    nextHandle,         \* the handle the next requestAnimationFrame returns
    perfNow,            \* performance.now()
    nEffects,           \* runs of the drivers effect so far
    nFrames,            \* animation frames so far
    animLast,           \* the last step of the map view and what it cancelled
    superseded          \* the animations that were running when animateMarkerMovement
                        \* was called again for their marker

animVars ==
    <<mapDrivers, markers, markerAnimations, frames, nextHandle, perfNow,
      nEffects, nFrames, animLast, superseded>>

VARIABLES
    floatFrom,      \* [lng, lat] an animation starts from, as doubles
    floatTo,        \* [lng, lat] it animates to
    floatSample     \* the [lng, lat] its callback computes at progress 1

floatVars == <<floatFrom, floatTo, floatSample>>

VARIABLES
    ws,         \* useWebSocket: its refs, its state and the WebSocket objects it made
    wsLast,     \* the last step of the hook or of a socket, and the hook before it
    wsHist      \* what happened since the retry counter was last reset, and the
                \* sendMessage calls so far

wsVars == <<ws, wsLast, wsHist>>

VARIABLES
    run,        \* one animateMarkerMovement call: its startTime, whether the
                \* browser holds its next callback, the progress of its last
                \* frame and what it pushed to driverPathCoordinates
    runNow      \* performance.now() for that animation

pathVars == <<run, runNow>>

VARIABLES
    mapView,    \* MapView's map: its state, its refs, the setTimeout callbacks
                \* of initializeMap and every mapboxgl.Map made so far
    mapLast     \* the last step of the map's life

mapVars == <<mapView, mapLast>>

vars == <<storeVars, staleVars, animVars, floatVars, wsVars, pathVars, mapVars>>

\* What an action of one part leaves alone: the variables of the other parts.
notStore == <<staleVars, animVars, floatVars, wsVars, pathVars, mapVars>>
notStale == <<storeVars, animVars, floatVars, wsVars, pathVars, mapVars>>
notAnim == <<storeVars, staleVars, floatVars, wsVars, pathVars, mapVars>>
notFloat == <<storeVars, staleVars, animVars, wsVars, pathVars, mapVars>>
notWs == <<storeVars, staleVars, animVars, floatVars, pathVars, mapVars>>
notPath == <<storeVars, staleVars, animVars, floatVars, wsVars, mapVars>>
notMap == <<storeVars, staleVars, animVars, floatVars, wsVars, pathVars>>

---------------------------------------------------------------------------
(* Bounds of the model *)

\* Runs of MapView's drivers effect in one run.
MaxEffects == 3
\* Animation frames in one run.
MaxFrames == 3
\* Messages delivered and firings of the simulated-motion interval in one run.
MaxEvents == 3
\* Milliseconds the clock advances in one run.
MaxClock == 1
\* Date.now() when the page mounts.
MountTime == 200000
\* WebSocket objects the hook makes in one run.
MaxSockets == 4
\* Re-renders of the page and calls of reconnect() and sendMessage() in one run.
MaxHostEvents == 1
\* times the page shows the Mapbox tab
MaxMounts == 2

---------------------------------------------------------------------------
(* JavaScript values *)

\* `undefined` where a number is expected.
Undefined == -1

Has(o, k) == k \in DOMAIN o

\* o[k] for a string-valued key; "" stands for undefined and for the empty
\* string, which `&&` and `||` treat alike.
Str(o, k) == IF Has(o, k) THEN o[k] ELSE ""

\* o[k] for a number-valued key.
Num(o, k) == IF Has(o, k) THEN o[k] ELSE Undefined

\* { ...p, ...u }
Spread(p, u) ==
    [k \in DOMAIN p \cup DOMAIN u |-> IF k \in DOMAIN u THEN u[k] ELSE p[k]]

\* a || b on strings
OrElse(a, b) == IF a # "" THEN a ELSE b

Location(lat, lng) == [lat |-> lat, lng |-> lng]

\* `flutter-${Date.now()}`: the decimal digits of t after the prefix.
FlutterId(t) == "flutter-" \o ToString(t)

---------------------------------------------------------------------------
(* Array helpers *)

Ids(ds) == {ds[i].id : i \in 1..Len(ds)}

\* Array.prototype.findIndex, 1-based; 0 for -1.
FindIndex(ds, id) ==
    IF \E i \in 1..Len(ds) : ds[i].id = id
    THEN CHOOSE i \in 1..Len(ds) :
            /\ ds[i].id = id
            /\ \A j \in 1..(i - 1) : ds[j].id # id
    ELSE 0

\* Array.prototype.find, on an id that is there.
Find(ds, id) == ds[FindIndex(ds, id)]

\* Array.prototype.some
Some(ds, id) == \E i \in 1..Len(ds) : ds[i].id = id

---------------------------------------------------------------------------
(* The demo seed *)

\* A Delivery is modelled by its id; "null" is null.
mockDrivers(t, st) ==
    LET stamp(d, v) == IF st THEN Spread(d, [lastUpdate |-> v]) ELSE d
    IN  << stamp([id |-> "1", name |-> "John Doe", vehicle |-> "Delivery Van",
                  status |-> "active", phone |-> "+964 750 123 4567",
                  location |-> Location(333152, 443661),
                  currentDelivery |-> "del-123"], t),
           stamp([id |-> "2", name |-> "Jane Smith", vehicle |-> "Scooter",
                  status |-> "active", phone |-> "+964 770 987 6543",
                  location |-> Location(333152 + 100, 443661 + 100),
                  currentDelivery |-> "del-456"], t),
           stamp([id |-> "3", name |-> "Dave Wilson", vehicle |-> "Truck",
                  status |-> "inactive", phone |-> "+964 780 456 7890",
                  location |-> Location(333152 - 100, 443661 + 200),
                  currentDelivery |-> "null"], t - (3 * 60 * 1000)) >>

---------------------------------------------------------------------------
(* Reconciliation.  Each operator gives the outcome of one handler as       *)
(* [drivers |-> the collection after it, toasts |-> the ids it announced].  *)

\* setDrivers(prev => ...) of updateDriverLocation, applied to prev.
updateDriverLocation(updatedDriver, prev, t, st) ==
    LET existingDriverIndex == FindIndex(prev, updatedDriver.id)
        stamp == IF st THEN [lastUpdate |-> t] ELSE [x \in {} |-> 0]
    IN  IF existingDriverIndex # 0
        THEN [drivers |->
                [prev EXCEPT ![existingDriverIndex] =
                    Spread(Spread(Spread(prev[existingDriverIndex], updatedDriver),
                                  [prevLocation |-> prev[existingDriverIndex].location]),
                           stamp)],
              toasts |-> <<>>]
        ELSE [drivers |-> Append(prev, Spread(updatedDriver, stamp)),
              toasts |-> <<updatedDriver.id>>]

\* processFlutterUpdate(data): `snap` is the `drivers` of the render that made
\* the handler, `prev` the state the queued updater is applied to.
processFlutterUpdate(data, snap, prev, t, st) ==
    LET lat == Num(data, "lat")
        lng == Num(data, "lng")
        name == Str(data, "name")
        phone == Str(data, "phone")
        id == Str(data, "id")
        stamp == IF st THEN [lastUpdate |-> t] ELSE [x \in {} |-> 0]
    IN  IF id # "" /\ Some(snap, id)
        THEN LET updatedDriver ==
                    Spread(Spread(Find(snap, id),
                                  [location |-> Location(lat, lng),
                                   name |-> OrElse(name, Find(snap, id).name),
                                   phone |-> OrElse(phone, Str(Find(snap, id), "phone")),
                                   status |-> "active"]),
                           stamp)
             IN  updateDriverLocation(updatedDriver, prev, t, st)
        ELSE LET newDriver ==
                    Spread([id |-> OrElse(id, FlutterId(t)),
                            name |-> OrElse(name, "Unknown Driver"),
                            phone |-> OrElse(phone, "Unknown"),
                            vehicle |-> "Unknown Vehicle",
                            status |-> "active",
                            location |-> Location(lat, lng),
                            currentDelivery |-> "null"],
                           stamp)
             IN  [drivers |-> Append(prev, newDriver), toasts |-> <<newDriver.id>>]

\* onMessage with the drivers_list branch upserting: the drivers missing from the
\* list are kept after it.
onMessageKeepsAbsent(message, snap, prev, t, st) ==
    IF ~message.json
    THEN [drivers |-> prev, toasts |-> <<>>]
    ELSE LET data == message.data
         IN  IF Str(data, "type") = "driver_location_update"
             THEN processFlutterUpdate(data, snap, prev, t, st)
             ELSE IF Str(data, "type") = "drivers_list" /\ Has(data, "drivers")
             THEN [drivers |->
                      data.drivers
                      \o SelectSeq(prev, LAMBDA d : ~Some(data.drivers, d.id)),
                   toasts |-> <<>>]
             ELSE [drivers |-> prev, toasts |-> <<>>]

\* onMessage taking a drivers_list without `drivers` for an empty list.
onMessageListDefaultsEmpty(message, snap, prev, t, st) ==
    IF ~message.json
    THEN [drivers |-> prev, toasts |-> <<>>]
    ELSE LET data == message.data
         IN  IF Str(data, "type") = "driver_location_update"
             THEN processFlutterUpdate(data, snap, prev, t, st)
             ELSE IF Str(data, "type") = "drivers_list"
             THEN [drivers |-> IF Has(data, "drivers") THEN data.drivers ELSE <<>>,
                   toasts |-> <<>>]
             ELSE [drivers |-> prev, toasts |-> <<>>]

\* A message event is [json |-> FALSE] when message.data is not JSON text and
\* [json |-> TRUE, data |-> the object JSON.parse gives] otherwise.
\* A field is truthy when the object has it (the messages of the model carry
\* no null, 0 or "" under `driver` or `drivers`).
onMessage(message, snap, prev, t, st) ==
    IF ~message.json
    THEN [drivers |-> prev, toasts |-> <<>>]           \* JSON.parse throws, caught
    ELSE LET data == message.data
         IN  IF Str(data, "type") = "driver_location_update"
             THEN processFlutterUpdate(data, snap, prev, t, st)
             ELSE IF Str(data, "type") = "driver_location_update" /\ Has(data, "driver")
             THEN updateDriverLocation(data.driver, prev, t, st)
             ELSE IF Str(data, "type") = "drivers_list" /\ Has(data, "drivers")
             THEN [drivers |-> data.drivers, toasts |-> <<>>]
             ELSE [drivers |-> prev, toasts |-> <<>>]

\* a + c on numbers: undefined + c is NaN, which is written as undefined.
Plus(a, c) == IF a = Undefined THEN Undefined ELSE a + c

\* The moveInterval updater moving every driver, whatever its status.
moveIntervalAll(prevDrivers, change, t, st) ==
    [i \in 1..Len(prevDrivers) |->
        LET driver == prevDrivers[i]
        IN  Spread(Spread(driver,
                          [prevLocation |-> driver.location,
                           location |-> Location(Plus(driver.location.lat, change[i][1]),
                                                 Plus(driver.location.lng, change[i][2]))]),
                   IF st THEN [lastUpdate |-> t] ELSE [x \in {} |-> 0])]

\* The updater of the moveInterval callback, applied to prevDrivers: `change`
\* gives, for each index, the <<latChange, lngChange>> drawn from Math.random().
moveInterval(prevDrivers, change, t, st) ==
    [i \in 1..Len(prevDrivers) |->
        LET driver == prevDrivers[i]
        IN  IF driver.status # "active"
            THEN driver
            ELSE Spread(Spread(driver,
                               [prevLocation |-> driver.location,
                                location |-> Location(Plus(driver.location.lat, change[i][1]),
                                                      Plus(driver.location.lng, change[i][2]))]),
                        IF st THEN [lastUpdate |-> t] ELSE [x \in {} |-> 0])]

---------------------------------------------------------------------------
(* Inputs *)

\* Two positions a driver reports, the first being the patch of the spec's
\* scenario: (33.3252, 44.3761).
LocA == Location(333252, 443761)
LocB == Location(333300, 443800)

Json(data) == [json |-> TRUE, data |-> data]

\* The translated shape { type, lat, lng, name, phone, id? }.
FlutterUpdate(id, loc, name) ==
    Json(Spread([type |-> "driver_location_update", lat |-> loc.lat, lng |-> loc.lng,
                 name |-> name, phone |-> ""],
                IF id = "" THEN [x \in {} |-> 0] ELSE [id |-> id]))

\* A Driver record as a server sends it.
ServerDriver(id, loc) ==
    [id |-> id, name |-> "Server " \o id, vehicle |-> "Van", status |-> "break",
     location |-> loc, currentDelivery |-> "null"]

\* The standard shape { type, driver }.
DriverUpdate(d) == Json([type |-> "driver_location_update", driver |-> d])

DriversList(ds) == Json([type |-> "drivers_list", drivers |-> ds])

\* A driver_location_update with neither lat/lng nor a nested driver.
EmptyUpdate == Json([type |-> "driver_location_update", name |-> "", phone |-> ""])

\* A drivers_list whose only record has a location without lat and lng.
BadList == DriversList(<<ServerDriver("2", Location(Undefined, Undefined))>>)

ValidUpdates ==
    {FlutterUpdate(id, loc, IF id = "9" THEN "Ann" ELSE "") :
        id \in {"1", "9"}, loc \in {LocA, LocB}}
    \cup {FlutterUpdate("", LocA, "Ann")}

NestedUpdates == {DriverUpdate(ServerDriver("2", LocB))}

ValidLists ==
    {DriversList(<<ServerDriver("2", LocA)>>),
     DriversList(<<ServerDriver("3", LocB), ServerDriver("1", LocA)>>),
     DriversList(<<>>)}

Ignored == {[json |-> FALSE], Json([type |-> "ping"]), Json([type |-> "drivers_list"])}

Messages ==
    ValidUpdates \cup NestedUpdates \cup ValidLists \cup {EmptyUpdate, BadList}
    \cup Ignored

\* <<latChange, lngChange>> of one driver in one tick: (Math.random() - 0.5) * 0.001
\* lies in [-0.0005, 0.0005).
Changes == <<  <<-5, 4>>, <<2, -3>>  >>

\* The draws of one tick over n drivers: neighbours draw different changes.
ChangeFns(n) == {[i \in 1..n |-> Changes[((i + k) % 2) + 1]] : k \in {0, 1}}

---------------------------------------------------------------------------
(* The staleness check *)

\* !o[k] for a number-valued key: a missing key and 0 are falsy.
Falsy(o, k) == ~Has(o, k) \/ o[k] = 0

\* MapView.isDriverStale
MapView_isDriverStale(driver, dateNow) ==
    IF Falsy(driver, "lastUpdate") THEN FALSE
    ELSE dateNow - driver.lastUpdate > 2 * 60 * 1000

\* DriversList.isDriverStale
DriversList_isDriverStale(driver, dateNow) ==
    IF Falsy(driver, "lastUpdate") THEN FALSE
    ELSE dateNow - driver.lastUpdate > 2 * 60 * 1000

\* DriverDetailToolbar.isStale
DriverDetailToolbar_isStale(driver, dateNow) ==
    IF Falsy(driver, "lastUpdate") THEN FALSE
    ELSE dateNow - driver.lastUpdate > 2 * 60 * 1000

\* lastUpdate values a stored record can carry: stamped by Date.now(), or as
\* a drivers_list message gives it.
LastUpdates == {0, 1, 80000, 200000}

\* Date.now() readings, around lastUpdate + 120000 for each of them.
Nows ==
    {0, 1, 119999, 120000, 120001, 120002, 199999, 200000, 200001,
     319999, 320000, 320001, 500000}

StaleDrivers ==
    {ServerDriver("2", LocA)}
    \cup {Spread(ServerDriver("2", LocA), [lastUpdate |-> u]) : u \in LastUpdates}

NotAsked == [asked |-> FALSE, map |-> FALSE, list |-> FALSE, toolbar |-> FALSE]

StaleIdle ==
    /\ staleDriver = ServerDriver("2", LocA)
    /\ staleNow = 0
    /\ staleAnswer = NotAsked

StaleInit ==
    /\ staleDriver \in StaleDrivers
    /\ staleNow \in Nows
    /\ staleAnswer = NotAsked

\* One render: the map view, the drivers list and the detail toolbar each
\* classify the driver.
StaleRender ==
    /\ ~staleAnswer.asked
    /\ staleAnswer' =
          [asked |-> TRUE,
           map |-> MapView_isDriverStale(staleDriver, staleNow),
           list |-> DriversList_isDriverStale(staleDriver, staleNow),
           toolbar |-> DriverDetailToolbar_isStale(staleDriver, staleNow)]
    /\ UNCHANGED <<staleDriver, staleNow, notStale>>

---------------------------------------------------------------------------
(* MapView: markers and their animations *)

\* o with key k set to v.
Put(o, k, v) == [x \in DOMAIN o \cup {k} |-> IF x = k THEN v ELSE o[x]]

Empty == [x \in {} |-> 0]

\* The refs of the component and the browser's frame callbacks, as one value
\* the effect threads through its loops; `cancelled` collects the ids whose
\* pending callback a cancelAnimationFrame dropped, `created` the
\* import('mapbox-gl').then callbacks queued, `superseded` the animations a
\* later animateMarkerMovement call for the same marker found running.
\* A callback is [handle, id, run, startTime, from, to]: `run` names the
\* animateMarkerMovement call whose closure it is, by its first handle.
Refs(m, a, f, h) ==
    [markers |-> m, markerAnimations |-> a, frames |-> f, nextHandle |-> h,
     cancelled |-> {}, created |-> <<>>, superseded |-> {}]

\* The animations of marker id that are running.
Running(fs, id) == {f.run : f \in {g \in fs : g.id = id}}

\* cancelAnimationFrame(handle) on the callbacks fs.
cancelAnimationFrame(fs, handle) == {f \in fs : f.handle # handle}

\* easeInOut(elapsed / duration) as a fraction of duration * duration: the
\* numerator.  t < 0.5 ? 2 * t * t : -1 + (4 - 2 * t) * t
easeInOut(elapsed, duration) ==
    IF 2 * elapsed < duration
    THEN 2 * elapsed * elapsed
    ELSE (4 * duration - 2 * elapsed) * elapsed - duration * duration

\* start + (end - start) * easeProgress, rounded down to the coordinate unit.
\* Elapsed times are multiples of 50 ms, so the eased fraction has a
\* denominator of 9000.
Interpolate(start, end, elapsed, duration) ==
    start + ((end - start) * (easeInOut(elapsed, duration) \div 1000))
                \div ((duration * duration) \div 1000)

\* animateMarkerMovement without the cancellation of the running animation.
animateWithoutCancel(r, markerId, start, end, t) ==
    IF markerId \notin DOMAIN r.markers
    THEN r
    ELSE [r EXCEPT
            !.frames = @ \cup {[handle |-> r.nextHandle, id |-> markerId,
                                run |-> r.nextHandle,
                                startTime |-> t, from |-> start, to |-> end]},
            !.markerAnimations = Put(@, markerId, r.nextHandle),
            !.nextHandle = @ + 1,
            !.superseded = @ \cup Running(r.frames, markerId)]

\* animateMarkerMovement(markerId, startLng, startLat, endLng, endLat) at
\* performance.now() = t; `start` and `end` are [lng, lat] pairs.
animateMarkerMovement(r, markerId, start, end, t) ==
    IF markerId \notin DOMAIN r.markers
    THEN r
    ELSE LET stored == markerId \in DOMAIN r.markerAnimations
             kept == IF stored
                     THEN cancelAnimationFrame(r.frames, r.markerAnimations[markerId])
                     ELSE r.frames
         IN  [r EXCEPT
                !.frames = kept \cup {[handle |-> r.nextHandle, id |-> markerId,
                                       run |-> r.nextHandle,
                                       startTime |-> t, from |-> start, to |-> end]},
                !.markerAnimations = Put(@, markerId, r.nextHandle),
                !.nextHandle = @ + 1,
                !.cancelled = IF kept # r.frames THEN @ \cup {markerId} ELSE @,
                !.superseded = @ \cup Running(r.frames, markerId)]

LngLat(location) == <<location.lng, location.lat>>

\* drivers.forEach of the drivers effect, from index i on.
RECURSIVE updateMarkers(_, _, _, _)
updateMarkers(r, ds, i, t) ==
    IF i > Len(ds)
    THEN r
    ELSE LET id == ds[i].id
         IN  updateMarkers(
                IF id \notin DOMAIN r.markers
                THEN [r EXCEPT !.created = Append(@, ds[i])]
                ELSE animateMarkerMovement(r, id, r.markers[id],
                                           LngLat(ds[i].location), t),
                ds, i + 1, t)

\* Object.keys(markers.current).forEach of the drivers effect: the markers of
\* the drivers that are gone, with their animations.
removeMarkers(r, ds) ==
    LET gone == {id \in DOMAIN r.markers : ~Some(ds, id)}
        handles == {r.markerAnimations[id] : id \in gone \cap DOMAIN r.markerAnimations}
    IN  [r EXCEPT
            !.markers = [id \in DOMAIN @ \ gone |-> @[id]],
            !.markerAnimations = [id \in DOMAIN @ \ gone |-> @[id]],
            !.frames = {f \in @ : f.handle \notin handles},
            !.cancelled = @ \cup {f.id : f \in {g \in r.frames : g.handle \in handles}}]

\* The then-callbacks of import('mapbox-gl'), in the order they were queued:
\* each sets markers.current[id] to a new marker at the driver's location.
RECURSIVE createMarkers(_, _)
createMarkers(r, i) ==
    IF i > Len(r.created)
    THEN r
    ELSE createMarkers(
            [r EXCEPT !.markers = Put(@, r.created[i].id,
                                      LngLat(r.created[i].location))],
            i + 1)

\* The drivers effect on the list ds, and the microtasks it queued.
driversEffect(r, ds, t) ==
    createMarkers(removeMarkers(updateMarkers(r, ds, 1, t), ds), 1)

\* animate requesting its next frame without storing the handle: the handle
\* kept for the marker is the one of the animation's first frame.
animateKeepsFirstHandle(r, f, currentTime) ==
    LET duration == 3000
        elapsed == currentTime - f.startTime
        capped == IF elapsed < duration THEN elapsed ELSE duration
        current == <<Interpolate(f.from[1], f.to[1], capped, duration),
                     Interpolate(f.from[2], f.to[2], capped, duration)>>
        moved == [r EXCEPT !.markers = Put(@, f.id, current)]
    IN  IF elapsed < duration
        THEN [moved EXCEPT
                !.frames = @ \cup {[f EXCEPT !.handle = r.nextHandle]},
                !.nextHandle = @ + 1]
        ELSE moved

\* One frame callback `animate(currentTime)` of the chain f.
animate(r, f, currentTime) ==
    LET duration == 3000
        elapsed == currentTime - f.startTime
        capped == IF elapsed < duration THEN elapsed ELSE duration
        current == <<Interpolate(f.from[1], f.to[1], capped, duration),
                     Interpolate(f.from[2], f.to[2], capped, duration)>>
        moved == [r EXCEPT !.markers = Put(@, f.id, current)]
    IN  IF elapsed < duration
        THEN [moved EXCEPT
                !.frames = @ \cup {[f EXCEPT !.handle = r.nextHandle]},
                !.markerAnimations = Put(@, f.id, r.nextHandle),
                !.nextHandle = @ + 1]
        ELSE moved

\* The browser runs the callbacks it held when the frame began, in the order
\* they were requested.
RECURSIVE runFrame(_, _, _)
runFrame(r, due, currentTime) ==
    IF due = {}
    THEN r
    ELSE LET f == CHOOSE g \in due : \A o \in due : g.handle <= o.handle
         IN  runFrame(animate([r EXCEPT !.frames = @ \ {f}], f, currentTime),
                      due \ {f}, currentTime)

\* Lists the page passes as the drivers prop.
AnimLists ==
    {<<>>,
     <<ServerDriver("1", LocA)>>,
     <<ServerDriver("1", LocB)>>,
     <<ServerDriver("1", LocB), ServerDriver("2", LocA)>>,
     <<ServerDriver("1", LocA), ServerDriver("1", LocB)>>}

\* Milliseconds between two animation frames.
FrameGaps == {750, 1500}

\* A step of the map view: the ids with a callback pending when it began,
\* the ids whose pending callback it cancelled and the animations whose
\* callback it ran.
AnimStep(op, inFlight, cancelled, ran) ==
    [op |-> op, inFlight |-> inFlight, cancelled |-> cancelled, ran |-> ran]

AnimIdle ==
    /\ mapDrivers = <<>>
    /\ markers = Empty
    /\ markerAnimations = Empty
    /\ frames = {}
    /\ nextHandle = 1
    /\ perfNow = 0
    /\ nEffects = 0
    /\ nFrames = 0
    /\ animLast = AnimStep("mount", {}, {}, {})
    /\ superseded = {}

\* The map has loaded; the page renders MapView with a new drivers array and
\* the drivers effect runs.
DriversChanged(ds) ==
    /\ nEffects < MaxEffects
    /\ LET r == driversEffect(Refs(markers, markerAnimations, frames, nextHandle),
                              ds, perfNow)
       IN  /\ markers' = r.markers
           /\ markerAnimations' = r.markerAnimations
           /\ frames' = r.frames
           /\ nextHandle' = r.nextHandle
           /\ animLast' = AnimStep("effect", {f.id : f \in frames}, r.cancelled, {})
           /\ superseded' = superseded \cup r.superseded
    /\ mapDrivers' = ds
    /\ nEffects' = nEffects + 1
    /\ UNCHANGED <<perfNow, nFrames, notAnim>>

\* An animation frame, `gap` ms after the last one.
Frame(gap) ==
    /\ nFrames < MaxFrames
    /\ perfNow' = perfNow + gap
    /\ LET r == runFrame(Refs(markers, markerAnimations, frames, nextHandle),
                         frames, perfNow + gap)
       IN  /\ markers' = r.markers
           /\ markerAnimations' = r.markerAnimations
           /\ frames' = r.frames
           /\ nextHandle' = r.nextHandle
    /\ animLast' = AnimStep("frame", {f.id : f \in frames}, {},
                             {f.run : f \in frames})
    /\ nFrames' = nFrames + 1
    /\ UNCHANGED <<mapDrivers, nEffects, superseded, notAnim>>

AnimNext ==
    \/ \E ds \in AnimLists : DriversChanged(ds)
    \/ \E gap \in FrameGaps : Frame(gap)

---------------------------------------------------------------------------
(* The last sample of an animation, in the arithmetic of `number`          *)
(*                                                                         *)
(* A double x with 2^-4 <= x < 2^8 is a multiple of 2^-56 (its unit in the *)
(* last place is at least 2^-56) and is written as the natural number      *)
(* x * 2^56 < 2^64, in three limbs of 24 bits <<high, middle, low>>.  What *)
(* makes such a number a double is that it has at most 53 significant      *)
(* bits.  A difference is a magnitude with a sign.                         *)

Limb == 2 ^ 24

BigAdd(x, y) ==
    LET s0 == x[3] + y[3]
        s1 == x[2] + y[2] + (s0 \div Limb)
        s2 == x[1] + y[1] + (s1 \div Limb)
    IN  <<s2, s1 % Limb, s0 % Limb>>

\* x - y for x >= y
BigSub(x, y) ==
    LET b0 == IF x[3] < y[3] THEN 1 ELSE 0
        b1 == IF x[2] < y[2] + b0 THEN 1 ELSE 0
    IN  <<x[1] - y[1] - b1,
          x[2] - y[2] - b0 + b1 * Limb,
          x[3] - y[3] + b0 * Limb>>

BigLess(x, y) ==
    \/ x[1] < y[1]
    \/ x[1] = y[1] /\ x[2] < y[2]
    \/ x[1] = y[1] /\ x[2] = y[2] /\ x[3] < y[3]

\* The number of significant bits of a limb, and of a number.
Bits(n) == IF n = 0 THEN 0 ELSE CHOOSE k \in 1..24 : 2 ^ (k - 1) <= n /\ n < 2 ^ k

BigBits(x) ==
    IF x[1] > 0 THEN 48 + Bits(x[1])
    ELSE IF x[2] > 0 THEN 24 + Bits(x[2])
    ELSE Bits(x[3])

\* The double nearest to the exact result x, ties to the even significand:
\* the rounding of every IEEE-754 operation.
RoundToDouble(x) ==
    IF BigBits(x) <= 53
    THEN x
    ELSE LET unit == 2 ^ (BigBits(x) - 53)
             rem == x[3] % unit
             odd == (x[3] \div unit) % 2 = 1
             down == <<x[1], x[2], x[3] - rem>>
         IN  IF 2 * rem > unit \/ (2 * rem = unit /\ odd)
             THEN BigAdd(down, <<0, 0, unit>>)
             ELSE down

\* x - y
FloatMinus(x, y) ==
    IF BigLess(x, y)
    THEN [neg |-> TRUE, mag |-> RoundToDouble(BigSub(y, x))]
    ELSE [neg |-> FALSE, mag |-> RoundToDouble(BigSub(x, y))]

\* d * (n / m) for the eased progress n / m = 1, the value easeInOut returns
\* at progress 1 (-1 + (4 - 2 * 1) * 1, exact): d * 1 is d.
FloatTimes(d, n, m) == CASE n = m -> d

\* x + d
FloatPlus(x, d) ==
    IF d.neg
    THEN RoundToDouble(BigSub(x, d.mag))
    ELSE RoundToDouble(BigAdd(x, d.mag))

\* The coordinate animate computes when elapsed >= duration:
\* start + (end - start) * easeInOut(Math.min(elapsed / duration, 1)).
FinalCoordinate(start, end) ==
    LET duration == 3000
    IN  FloatPlus(start,
                  FloatTimes(FloatMinus(end, start),
                             easeInOut(duration, duration), duration * duration))

\* The doubles nearest to these decimal literals, times 2^56.
D_0_1 == <<25, 10066329, 10066330>>
D_0_3 == <<76, 13421772, 13421772>>
D_1_1 == <<281, 10066329, 10066336>>
D_10_5 == <<2688, 0, 0>>
D_33_3152 == <<8528, 11596411, 11730432>>
D_33_3252 == <<8531, 4214436, 11059712>>
D_44_3661 == <<11357, 12106439, 1100800>>
D_44_3761 == <<11360, 4724464, 429568>>

\* Latitudes and longitudes of the model: the seed's and the patch's around
\* Baghdad, and places near the equator and the prime meridian.
Latitudes == {D_0_1, D_0_3, D_1_1, D_10_5, D_33_3152, D_33_3252}
Longitudes == {D_0_1, D_0_3, D_10_5, D_44_3661, D_44_3761}

Positions == {<<lng, lat>> : lng \in Longitudes, lat \in Latitudes}

NoSample == <<>>

FloatIdle ==
    /\ floatFrom = <<D_44_3661, D_33_3152>>
    /\ floatTo = <<D_44_3761, D_33_3252>>
    /\ floatSample = NoSample

FloatInit ==
    /\ floatFrom \in Positions
    /\ floatTo \in Positions \ {floatFrom}
    /\ floatSample = NoSample

\* The frame callback that runs once the duration has passed.
LastFrame ==
    /\ floatSample = NoSample
    /\ floatSample' = <<FinalCoordinate(floatFrom[1], floatTo[1]),
                        FinalCoordinate(floatFrom[2], floatTo[2])>>
    /\ UNCHANGED <<floatFrom, floatTo, notFloat>>

---------------------------------------------------------------------------
(* One animation and the trace it draws                                    *)
(*                                                                         *)
(* `run` is one call of animateMarkerMovement for a marker that exists:    *)
(* startTime, pending (the browser holds the callback whose handle is in   *)
(* markerAnimations.current), cancelled (cancelAnimationFrame dropped it), *)
(* source (driverPaths.current[markerId] exists; the drivers effect that   *)
(* started the animation ran with map.current and mapLoaded set), progress *)
(* (of the last frame, Undefined before the first) and path (the progress  *)
(* of each coordinate the run pushed to driverPathCoordinates, in order).  *)
(* Progress is written as its numerator over the duration: 1500 is 0.5.    *)

\* The default of the `duration` parameter.
Duration == 3000

\* Math.min left out: elapsed / duration as it is.
ProgressUncapped(elapsed, duration) == elapsed

\* Math.min(elapsed / duration, 1), as the numerator over duration.
Progress(elapsed, duration) == IF elapsed < duration THEN elapsed ELSE duration

\* The whole milliseconds e for which e / 3000 % 0.1 < 0.01 has another
\* value in doubles than in the rationals: 0.11 % 0.1 is
\* 0.009999999999999995, and 0.3 % 0.1 is 0.09999999999999998.
RoundedIn == {330, 630, 930, 1230, 1530, 1830, 2130, 2730}

RoundedOut == {900, 1500, 1800, 2100, 2700}

\* progress % 0.1 < 0.01 for progress = p / 3000, p a whole number below 3000.
OnTenth(p) ==
    \/ p \in RoundedIn
    \/ p \notin RoundedOut /\ p % 300 < 30

\* The path update of a frame: the progress values pushed so far, after a
\* frame at `progress`.
updatePath(path, source, progress, duration) ==
    IF source /\ (OnTenth(progress) \/ progress = duration)
    THEN Append(path, progress)
    ELSE path

\* animate(currentTime) of the run r.
animateRun(r, currentTime) ==
    LET elapsed == currentTime - r.startTime
        progress == Progress(elapsed, Duration)
    IN  [r EXCEPT !.progress = progress,
                  !.path = updatePath(@, r.source, progress, Duration),
                  !.pending = progress < Duration]

\* performance.now() when animateMarkerMovement is called.
StartTimes == {0, 250}

\* Milliseconds from one frame to the next: a 60 Hz display, and a tab the
\* browser throttles.
PathGaps == {16, 1500}

PathIdle ==
    /\ run = [startTime |-> 0, pending |-> FALSE, cancelled |-> FALSE,
              source |-> FALSE, progress |-> Undefined, path |-> <<>>]
    /\ runNow = 0

\* animateMarkerMovement has requested the first frame.
PathInit ==
    /\ runNow \in StartTimes
    /\ \E source \in BOOLEAN :
          run = [startTime |-> runNow, pending |-> TRUE, cancelled |-> FALSE,
                 source |-> source, progress |-> Undefined, path |-> <<>>]

\* The browser runs the callback of the run, `gap` ms after the last frame.
PathFrame(gap) ==
    /\ run.pending
    /\ runNow' = runNow + gap
    /\ run' = animateRun(run, runNow + gap)
    /\ UNCHANGED notPath

\* cancelAnimationFrame(markerAnimations.current[markerId]): the drivers
\* effect moves the marker again or removes it.
PathCancel ==
    /\ run.pending
    /\ run' = [run EXCEPT !.pending = FALSE, !.cancelled = TRUE]
    /\ UNCHANGED <<runNow, notPath>>

PathNext ==
    \/ \E gap \in PathGaps : PathFrame(gap)
    \/ PathCancel

---------------------------------------------------------------------------
(* MapView: the map                                                        *)
(*                                                                         *)
(* `mapView` holds: mount (which mounting of the component this is),       *)
(* mounted, stored (localStorage has mapbox_token), the states mapboxToken *)
(* (TRUE for a token, FALSE for null), mapLoaded and mapInitialized,       *)
(* deps (their values in the last render), dirty (a render is queued),     *)
(* container (mapContainer.current is set), current (map.current as an     *)
(* index into maps, 0 for null), maps (every mapboxgl.Map made so far: the *)
(* mount that made it, and "loading", "loaded" or "removed"), timers (the  *)
(* setTimeout callbacks of initializeMap not yet run, each the number of   *)
(* the mount whose closure it is) and drawn (the drivers effect got past   *)
(* its guard during this mount).                                           *)

\* initializeMap() up to its setTimeout.
initializeMap(v) ==
    IF ~v.mapboxToken \/ ~v.container
    THEN v
    ELSE IF v.current # 0
    THEN v
    ELSE [v EXCEPT !.timers = Append(@, v.mount)]

\* The setTimeout callback of initializeMap, made by mount m.  The refs of
\* a component that is gone are null: `new mapboxgl.Map` with a null
\* container throws, and the catch logs it.
createMap(v, m) ==
    IF m = v.mount /\ v.container
    THEN [v EXCEPT !.maps = Append(@, [mount |-> m, status |-> "loading"]),
                   !.current = Len(v.maps) + 1]
    ELSE v

\* The `load` handler of map i: setMapLoaded(true); setMapInitialized(true).
\* Setting the state of a component that is gone does nothing.
onLoad(v, i) ==
    LET loaded == [v EXCEPT !.maps[i].status = "loaded"]
    IN  IF v.maps[i].mount = v.mount /\ v.mounted
        THEN [loaded EXCEPT
                !.mapLoaded = TRUE,
                !.mapInitialized = TRUE,
                !.dirty = @ \/ ~v.mapLoaded \/ ~v.mapInitialized]
        ELSE loaded

\* The effect on [mapboxToken, mapInitialized].
initEffect(v) ==
    IF v.mapboxToken /\ ~v.mapInitialized THEN initializeMap(v) ELSE v

\* The cleanup that effect returns: map.current.remove(); map.current = null.
initCleanup(v) ==
    IF v.current # 0
    THEN [v EXCEPT !.maps[v.current].status = "removed", !.current = 0]
    ELSE v

\* The effect on [], "Re-initialize map when switching to mapbox tab".
tabEffect(v) ==
    IF v.mapboxToken /\ ~v.mapInitialized THEN initializeMap(v) ELSE v

\* The drivers effect, as far as the map goes: it returns at once unless
\* map.current and mapLoaded are set.
driversEffectGuard(v) ==
    [v EXCEPT !.drawn = @ \/ (v.current # 0 /\ v.mapLoaded)]

States(v) ==
    [mapboxToken |-> v.mapboxToken, mapInitialized |-> v.mapInitialized,
     mapLoaded |-> v.mapLoaded]

\* MapView before it is mounted for the first time.
Unmounted(stored) ==
    [mount |-> 0, mounted |-> FALSE, stored |-> stored, mapboxToken |-> FALSE,
     mapLoaded |-> FALSE, mapInitialized |-> FALSE,
     deps |-> [mapboxToken |-> FALSE, mapInitialized |-> FALSE, mapLoaded |-> FALSE],
     dirty |-> FALSE, container |-> FALSE, current |-> 0, maps |-> <<>>,
     timers |-> <<>>, drawn |-> FALSE]

\* The first render of a new MapView and its effects, in the order the
\* component declares them.
mount(v) ==
    LET fresh == [v EXCEPT
                    !.mount = @ + 1,
                    !.mounted = TRUE,
                    !.mapboxToken = v.stored,
                    !.mapLoaded = FALSE,
                    !.mapInitialized = FALSE,
                    !.dirty = FALSE,
                    !.container = v.stored,
                    !.current = 0,
                    !.drawn = FALSE]
    IN  driversEffectGuard(tabEffect(initEffect(
            [fresh EXCEPT !.deps = States(fresh)])))

\* A later render and the effects whose dependencies changed: the cleanups
\* first, then the effects.  `props` says the drivers prop changed.
render(v, props) ==
    LET init == v.deps.mapboxToken # v.mapboxToken
                    \/ v.deps.mapInitialized # v.mapInitialized
        draw == props \/ v.deps.mapLoaded # v.mapLoaded
        committed == [v EXCEPT !.container = v.mapboxToken,
                               !.dirty = FALSE,
                               !.deps = States(v)]
        cleaned == IF init THEN initCleanup(committed) ELSE committed
        inited == IF init THEN initEffect(cleaned) ELSE cleaned
    IN  IF draw THEN driversEffectGuard(inited) ELSE inited

\* handleTokenSubmit(token).
handleTokenSubmit(v) ==
    [v EXCEPT !.stored = TRUE, !.mapboxToken = TRUE,
              !.mapInitialized = FALSE, !.dirty = TRUE]

\* The component goes: the cleanup of the init effect runs, the refs are dropped.
unmount(v) ==
    [initCleanup(v) EXCEPT !.mounted = FALSE, !.container = FALSE, !.dirty = FALSE]

MapStep(op, before) == [op |-> op, before |-> before]

MapIdle ==
    /\ mapView = Unmounted(FALSE)
    /\ mapLast = MapStep("none", Unmounted(FALSE))

\* The page shows MapView; localStorage has a token or not.
MapInit ==
    \E stored \in BOOLEAN :
        /\ mapView = mount(Unmounted(stored))
        /\ mapLast = MapStep("mount", Unmounted(stored))

\* The oldest setTimeout callback of initializeMap runs.
MapTimeout ==
    /\ mapView.timers # <<>>
    /\ mapView' = createMap([mapView EXCEPT !.timers = Tail(@)], Head(mapView.timers))
    /\ mapLast' = MapStep("timeout", mapView)
    /\ UNCHANGED notMap

\* Map i has fetched its style and fires `load`.
MapLoad(i) ==
    /\ mapView.maps[i].status = "loading"
    /\ mapView' = onLoad(mapView, i)
    /\ mapLast' = MapStep("load", mapView)
    /\ UNCHANGED notMap

\* React renders MapView with the states that were set.
MapRender ==
    /\ mapView.mounted
    /\ mapView.dirty
    /\ mapView' = render(mapView, FALSE)
    /\ mapLast' = MapStep("render", mapView)
    /\ UNCHANGED notMap

\* The page passes a new drivers array.
MapDrivers ==
    /\ mapView.mounted
    /\ mapView' = render(mapView, TRUE)
    /\ mapLast' = MapStep("drivers", mapView)
    /\ UNCHANGED notMap

\* The user enters a token in the form shown while there is none.
MapTokenSubmit ==
    /\ mapView.mounted
    /\ ~mapView.deps.mapboxToken
    /\ mapView' = handleTokenSubmit(mapView)
    /\ mapLast' = MapStep("token", mapView)
    /\ UNCHANGED notMap

\* The user leaves the Mapbox tab.
MapUnmount ==
    /\ mapView.mounted
    /\ mapView' = unmount(mapView)
    /\ mapLast' = MapStep("unmount", mapView)
    /\ UNCHANGED notMap

\* The user comes back to the Mapbox tab.
MapMount ==
    /\ ~mapView.mounted
    /\ mapView.mount < MaxMounts
    /\ mapView' = mount(mapView)
    /\ mapLast' = MapStep("mount", mapView)
    /\ UNCHANGED notMap

MapNext ==
    \/ MapTimeout
    \/ \E i \in 1..Len(mapView.maps) : MapLoad(i)
    \/ MapRender
    \/ MapDrivers
    \/ MapTokenSubmit
    \/ MapUnmount
    \/ MapMount

---------------------------------------------------------------------------
(* The page *)

NoMsg == [json |-> FALSE]

Step(op, msg, before, toasted) ==
    [op |-> op, msg |-> msg, before |-> before, toasted |-> toasted]

StoreInit ==
    /\ stamps \in BOOLEAN
    /\ now = MountTime
    /\ drivers = mockDrivers(MountTime, stamps)
    /\ rendered = mockDrivers(MountTime, stamps)
    /\ toasts = <<>>
    /\ nEvents = 0
    /\ last = Step("mount", NoMsg, <<>>, <<>>)

\* socket.onmessage: the handler of the last render runs on one message.
Deliver(m) ==
    /\ nEvents < MaxEvents
    /\ LET r == onMessage(m, rendered, drivers, now, stamps)
       IN  /\ drivers' = r.drivers
           /\ toasts' = toasts \o r.toasts
           /\ last' = Step("message", m, drivers, r.toasts)
    /\ nEvents' = nEvents + 1
    /\ UNCHANGED <<rendered, now, stamps, notStore>>

\* The setInterval callback of the mount effect.
Tick ==
    /\ nEvents < MaxEvents
    /\ \E change \in ChangeFns(Len(drivers)) :
          drivers' = moveInterval(drivers, change, now, stamps)
    /\ nEvents' = nEvents + 1
    /\ last' = Step("tick", NoMsg, drivers, <<>>)
    /\ UNCHANGED <<rendered, toasts, now, stamps, notStore>>

\* React renders the page again: the handlers made by this render see the
\* state with every queued updater applied.
Render ==
    /\ rendered # drivers
    /\ rendered' = drivers
    /\ last' = Step("render", NoMsg, drivers, <<>>)
    /\ UNCHANGED <<drivers, toasts, now, nEvents, stamps, notStore>>

\* A millisecond passes.
Clock ==
    /\ now < MountTime + MaxClock
    /\ now' = now + 1
    /\ last' = Step("clock", NoMsg, drivers, <<>>)
    /\ UNCHANGED <<drivers, rendered, toasts, nEvents, stamps, notStore>>

StoreNext ==
    \/ \E m \in Messages : Deliver(m)
    \/ Tick
    \/ Render
    \/ Clock

\* The page before anything happens, for the specifications of the other parts.
StoreIdle ==
    /\ stamps = TRUE
    /\ now = MountTime
    /\ drivers = mockDrivers(MountTime, TRUE)
    /\ rendered = mockDrivers(MountTime, TRUE)
    /\ toasts = <<>>
    /\ nEvents = 0
    /\ last = Step("mount", NoMsg, <<>>, <<>>)

---------------------------------------------------------------------------
(* useWebSocket, as the DriverTracking page calls it: with an inline        *)
(* onMessage and onOpen, so that every render of the page makes a new       *)
(* `connect` and the effect on [connect] runs again.                        *)
(*                                                                         *)
(* `ws` holds the hook: sockets (every WebSocket it made, by number),       *)
(* current (socket.current, 0 for null), reconnectCount,                    *)
(* reconnectTimeoutRef (0 for null), timers (the setTimeout callbacks not   *)
(* yet run or cleared), readyState (the React state behind                  *)
(* connectionStatus), dirty (a render is queued), notices (the toasts of    *)
(* the last step), sent (what socket.send transmitted), mounted, urlOk      *)
(* (new WebSocket(url) does not throw), reconnectAttempts (the prop), gen   *)
(* (the run of the effect whose closures are the latest) and hostEvents     *)
(* (the renders and calls so far).                                          *)

\* The reconnectAttempts prop: 5 is the default, which the page leaves in
\* place; a host may pass any number.
Budgets == {1, 2, 5}

\* new WebSocket(url) by the connect of effect run g: readyState CONNECTING.
\* `wasOpen`: it reached OPEN; `closedBy`: who called close() on it;
\* `orphan`: the instance that made it had been torn down.
Socket(g, orphan) ==
    [state |-> "connecting", wasOpen |-> FALSE, gen |-> g, closedBy |-> "none",
     orphan |-> orphan]

\* setReadyState(v): nothing on an unmounted component; a render is queued
\* when the value changes.
setReadyState(h, v) ==
    IF ~h.mounted
    THEN h
    ELSE [h EXCEPT !.readyState = v,
                   !.dirty = @ \/ v # h.readyState]

\* connect() of effect run g.
connect(h, g) ==
    IF h.current # 0 /\ h.sockets[h.current].state \in {"open", "connecting"}
    THEN h
    ELSE IF ~h.urlOk
    THEN [h EXCEPT !.notices = Append(@, "failed to establish")]   \* caught
    ELSE [h EXCEPT !.sockets = Append(@, Socket(g, ~h.mounted \/ g # h.gen)),
                   !.current = Len(h.sockets) + 1]

\* WebSocket.close() on socket i, called by `by`.
close(h, i, by) ==
    IF h.sockets[i].state \in {"connecting", "open"}
    THEN [h EXCEPT !.sockets[i].state = "closing", !.sockets[i].closedBy = by]
    ELSE h


\* socket.onopen leaving reconnectCount.current as it is.
onopenKeepsCount(h, i) ==
    [setReadyState(h, "open") EXCEPT !.notices = Append(@, "connected")]

\* socket.onopen of socket i.
onopen(h, i) ==
    [setReadyState(h, "open") EXCEPT
        !.reconnectCount = 0,
        !.notices = Append(@, "connected")]

\* window.clearTimeout(ref)
clearTimeout(ts, ref) == {t \in ts : t.id # ref}

\* socket.onclose with the wasClean test left out: every close retries.
oncloseAnyClose(h, i, wasClean) ==
    LET c == setReadyState(h, "closed")
    IN  IF c.reconnectCount < c.reconnectAttempts
        THEN [c EXCEPT
                !.reconnectCount = @ + 1,
                !.notices = Append(@, "lost"),
                !.timers = clearTimeout(@, c.reconnectTimeoutRef)
                           \cup {[id |-> c.nextTimer, gen |-> c.sockets[i].gen]},
                !.reconnectTimeoutRef = c.nextTimer,
                !.nextTimer = @ + 1]
        ELSE [c EXCEPT !.notices = Append(@, "failed")]

\* socket.onclose of socket i, for a close event with event.wasClean.
onclose(h, i, wasClean) ==
    LET c == setReadyState(h, "closed")
    IN  IF ~wasClean /\ c.reconnectCount < c.reconnectAttempts
        THEN [c EXCEPT
                !.reconnectCount = @ + 1,
                !.notices = Append(@, "lost"),
                !.timers = clearTimeout(@, c.reconnectTimeoutRef)
                           \cup {[id |-> c.nextTimer, gen |-> c.sockets[i].gen]},
                !.reconnectTimeoutRef = c.nextTimer,
                !.nextTimer = @ + 1]
        ELSE IF c.reconnectCount >= c.reconnectAttempts
        THEN [c EXCEPT !.notices = Append(@, "failed")]
        ELSE c

\* reconnect() of the latest render.
reconnect(h) ==
    LET closed == IF h.current # 0 THEN close(h, h.current, "reconnect") ELSE h
    IN  connect([closed EXCEPT !.reconnectCount = 0], h.gen)

CanSend(h) == h.current # 0 /\ h.sockets[h.current].state = "open"

\* sendMessage transmitting whatever the socket's state.
sendMessageAnyState(h, message) ==
    [h EXCEPT !.sent = Append(@, [sock |-> h.current, payload |-> message])]

\* sendMessage(message)
sendMessage(h, message) ==
    IF ~CanSend(h)
    THEN [h EXCEPT !.notices = Append(@, "cannot send")]
    ELSE [h EXCEPT !.sent = Append(@, [sock |-> h.current, payload |-> message])]

\* The cleanup of the effect on [connect].
cleanup(h) ==
    LET cleared == [h EXCEPT !.timers = IF h.reconnectTimeoutRef # 0
                                        THEN clearTimeout(@, h.reconnectTimeoutRef)
                                        ELSE @]
    IN  IF h.current # 0 THEN close(cleared, h.current, "cleanup") ELSE cleared

\* The hook before its first effect.
Hook(urlOk, attempts) ==
    [sockets |-> <<>>, current |-> 0, reconnectCount |-> 0,
     reconnectTimeoutRef |-> 0, timers |-> {}, nextTimer |-> 1,
     readyState |-> "connecting", dirty |-> FALSE, notices |-> <<>>, sent |-> <<>>,
     mounted |-> TRUE, urlOk |-> urlOk, reconnectAttempts |-> attempts,
     gen |-> 1, hostEvents |-> 0]

\* The hook as a step finds it: the toasts of the step before are gone.
Quiet(h) == [h EXCEPT !.notices = <<>>]

WsStep(op, sock, clean, before) ==
    [op |-> op, sock |-> sock, clean |-> clean, before |-> before]

\* streak: unclean close events since the counter was last reset by an open
\* or by reconnect(); scheduled: reconnect timers set since then; attempts:
\* sockets made since then (not the one reconnect() makes); refused: the
\* payloads sendMessage did not transmit.
History(streak, scheduled, attempts, refused) ==
    [streak |-> streak, scheduled |-> scheduled, attempts |-> attempts,
     refused |-> refused]

\* The page has mounted and the effect has run connect().
WsInit ==
    /\ \E urlOk \in BOOLEAN, attempts \in Budgets :
          ws = connect(Hook(urlOk, attempts), 1)
    /\ wsLast = WsStep("mount", 0, FALSE, Hook(TRUE, 5))
    /\ wsHist = History(0, 0, 0, {})

WsIdle ==
    /\ ws = connect(Hook(TRUE, 5), 1)
    /\ wsLast = WsStep("mount", 0, FALSE, Hook(TRUE, 5))
    /\ wsHist = History(0, 0, 0, {})

Made(before, after) == Len(after.sockets) - Len(before.sockets)

\* The handshake of socket i succeeds: the open event.
Open(i) ==
    /\ ws.sockets[i].state = "connecting"
    /\ ws' = onopen([Quiet(ws) EXCEPT !.sockets[i].state = "open",
                                      !.sockets[i].wasOpen = TRUE], i)
    /\ wsLast' = WsStep("open", i, FALSE, ws)
    /\ wsHist' = History(0, 0, 0, wsHist.refused)
    /\ UNCHANGED notWs

\* The close event of socket i.  A socket that never opened closes uncleanly
\* (the handshake failed, or close() was called before it finished); one that
\* was open closes cleanly (a closing handshake) or not (the connection dropped).
CloseEvent(i, wasClean) ==
    /\ ws.sockets[i].state \in {"connecting", "open", "closing"}
    /\ wasClean => ws.sockets[i].wasOpen
    /\ ws' = onclose([Quiet(ws) EXCEPT !.sockets[i].state = "closed"], i, wasClean)
    /\ wsLast' = WsStep("close", i, wasClean, ws)
    /\ wsHist' = [wsHist EXCEPT
                    !.streak = IF wasClean THEN @ ELSE @ + 1,
                    !.scheduled = @ + Cardinality(ws'.timers \ ws.timers)]
    /\ UNCHANGED notWs

\* A reconnect timer fires: connect() of the closure that set it.
Timeout(t) ==
    /\ t \in ws.timers
    /\ Len(ws.sockets) < MaxSockets
    /\ ws' = connect([Quiet(ws) EXCEPT !.timers = @ \ {t}], t.gen)
    /\ wsLast' = WsStep("timeout", 0, FALSE, ws)
    /\ wsHist' = [wsHist EXCEPT !.attempts = @ + Made(ws, ws')]
    /\ UNCHANGED notWs

\* The user presses the reconnect button.
Reconnect ==
    /\ ws.mounted
    /\ ws.hostEvents < MaxHostEvents
    /\ Len(ws.sockets) < MaxSockets
    /\ ws' = [reconnect(Quiet(ws)) EXCEPT !.hostEvents = @ + 1]
    /\ wsLast' = WsStep("reconnect", 0, FALSE, ws)
    /\ wsHist' = History(0, 0, 0, wsHist.refused)
    /\ UNCHANGED notWs

\* A caller sends its next payload.
Send ==
    /\ ws.mounted
    /\ ws.hostEvents < MaxHostEvents
    /\ ws' = [sendMessage(Quiet(ws), ws.hostEvents + 1) EXCEPT !.hostEvents = @ + 1]
    /\ wsLast' = WsStep("send", 0, FALSE, ws)
    /\ wsHist' = [wsHist EXCEPT
                    !.refused = IF ws'.sent = ws.sent
                                THEN @ \cup {ws.hostEvents + 1} ELSE @]
    /\ UNCHANGED notWs

\* socket.onmessage of socket i: setLastMessage(event) queues a render.
Message(i) ==
    /\ ws.mounted
    /\ ws.sockets[i].state = "open"
    /\ ws.hostEvents < MaxHostEvents
    /\ ws' = [Quiet(ws) EXCEPT !.dirty = TRUE]
    /\ wsLast' = WsStep("message", i, FALSE, ws)
    /\ UNCHANGED <<wsHist, notWs>>

\* The page's simulated-motion interval: setDrivers queues a render.
HostTick ==
    /\ ws.mounted
    /\ ws.hostEvents < MaxHostEvents
    /\ ws' = [Quiet(ws) EXCEPT !.dirty = TRUE]
    /\ wsLast' = WsStep("tick", 0, FALSE, ws)
    /\ UNCHANGED <<wsHist, notWs>>

\* The page renders again: `connect` is a new function, so React runs the
\* cleanup of the effect and then the effect, connect().
Rerender ==
    /\ ws.mounted
    /\ ws.dirty
    /\ ws.hostEvents < MaxHostEvents
    /\ Len(ws.sockets) < MaxSockets
    /\ ws' = connect([cleanup(Quiet(ws)) EXCEPT !.dirty = FALSE, !.gen = @ + 1,
                                         !.hostEvents = @ + 1],
                     ws.gen + 1)
    /\ wsLast' = WsStep("render", 0, FALSE, ws)
    /\ wsHist' = [wsHist EXCEPT !.attempts = @ + Made(ws, ws')]
    /\ UNCHANGED notWs

\* The page is unmounted: the cleanup of the effect.
Unmount ==
    /\ ws.mounted
    /\ ws' = [cleanup(Quiet(ws)) EXCEPT !.mounted = FALSE, !.dirty = FALSE]
    /\ wsLast' = WsStep("unmount", 0, FALSE, ws)
    /\ UNCHANGED <<wsHist, notWs>>

WsNext ==
    \/ \E i \in 1..Len(ws.sockets) : Open(i)
    \/ \E i \in 1..Len(ws.sockets), wasClean \in BOOLEAN : CloseEvent(i, wasClean)
    \/ \E t \in ws.timers : Timeout(t)
    \/ Reconnect
    \/ Send
    \/ \E i \in 1..Len(ws.sockets) : Message(i)
    \/ HostTick
    \/ Rerender
    \/ Unmount

---------------------------------------------------------------------------
(* Specifications *)

\* The driver collection of the page.
Init == StoreInit /\ StaleIdle /\ AnimIdle /\ FloatIdle /\ WsIdle /\ PathIdle /\ MapIdle

Next == StoreNext

Spec == Init /\ [][Next]_vars

\* The staleness check on every driver and clock reading of the bounds.
InitStale == StaleInit /\ StoreIdle /\ AnimIdle /\ FloatIdle /\ WsIdle /\ PathIdle /\ MapIdle

NextStale == StaleRender

SpecStale == InitStale /\ [][NextStale]_vars

\* MapView's markers and animations, with the map loaded.
InitAnim == AnimIdle /\ StoreIdle /\ StaleIdle /\ FloatIdle /\ WsIdle /\ PathIdle /\ MapIdle

NextAnim == AnimNext

SpecAnim == InitAnim /\ [][NextAnim]_vars

\* The last sample of an animation between any two positions of the bounds.
InitFloat == FloatInit /\ StoreIdle /\ StaleIdle /\ AnimIdle /\ WsIdle /\ PathIdle /\ MapIdle

NextFloat == LastFrame

SpecFloat == InitFloat /\ [][NextFloat]_vars

\* The hook in the mounted page, its sockets, timers and re-renders.
InitWs == WsInit /\ StoreIdle /\ StaleIdle /\ AnimIdle /\ FloatIdle /\ PathIdle /\ MapIdle

NextWs == WsNext

SpecWs == InitWs /\ [][NextWs]_vars

\* One animation.
InitPath ==
    PathInit /\ StoreIdle /\ StaleIdle /\ AnimIdle /\ FloatIdle /\ WsIdle /\ MapIdle

NextPath == PathNext

SpecPath == InitPath /\ [][NextPath]_vars

\* One animation in a page that stays visible: the browser goes on calling
\* the callbacks it holds.
SpecPathLive == SpecPath /\ WF_vars(\E gap \in PathGaps : PathFrame(gap))

\* The map of MapView.
InitMap ==
    MapInit /\ StoreIdle /\ StaleIdle /\ AnimIdle /\ FloatIdle /\ WsIdle /\ PathIdle

NextMap == MapNext

SpecMap == InitMap /\ [][NextMap]_vars

---------------------------------------------------------------------------
(* What the last step was *)

\* The last step reconciled a message that parsed.
Reconciled == last.op = "message" /\ last.msg.json

\* The parsed message is a driver_location_update in the translated shape
\* with numeric lat and lng and an id.
TranslatedWithId(data) ==
    /\ Str(data, "type") = "driver_location_update"
    /\ ~Has(data, "driver")
    /\ Num(data, "lat") # Undefined /\ Num(data, "lng") # Undefined
    /\ Str(data, "id") # ""

\* The parsed message is a driver_location_update with a nested driver.
Nested(data) ==
    Str(data, "type") = "driver_location_update" /\ Has(data, "driver")

\* The parsed message is a drivers_list with its drivers array.
ListMessage(data) == Str(data, "type") = "drivers_list" /\ Has(data, "drivers")

ValidLocation(loc) == loc.lat # Undefined /\ loc.lng # Undefined

---------------------------------------------------------------------------
(* Claims about the driver collection *)

\* C1: after any sequence of reconciled inputs, in any interleaving with
\* renders, the collection never holds two records with the same id.
C1_UniqueIds ==
    \A i, j \in 1..Len(drivers) : drivers[i].id = drivers[j].id => i = j

\* C2: a location update for an id already in the store leaves that driver
\* with the update's location and with prevLocation equal to the location the
\* stored record had immediately before.
C2_PatchSetsLocationAndPrev ==
    (Reconciled /\ TranslatedWithId(last.msg.data)
        /\ last.msg.data.id \in Ids(last.before))
    => LET id == last.msg.data.id
           d == Find(drivers, id)
       IN  /\ d.location = Location(last.msg.data.lat, last.msg.data.lng)
           /\ Has(d, "prevLocation")
           /\ d.prevLocation = Find(last.before, id).location

\* C3: a location update for an id that is not in the store appends exactly
\* one record, last, with that id, status "active" and currentDelivery null,
\* and leaves every stored record and its position as it was.
C3_UnknownIdAppendsActive ==
    (Reconciled /\ TranslatedWithId(last.msg.data)
        /\ last.msg.data.id \notin Ids(last.before))
    => /\ Len(drivers) = Len(last.before) + 1
       /\ SubSeq(drivers, 1, Len(last.before)) = last.before
       /\ drivers[Len(drivers)].id = last.msg.data.id
       /\ drivers[Len(drivers)].status = "active"
       /\ drivers[Len(drivers)].currentDelivery = "null"

\* C4: "New driver connected" is raised exactly once per newly created id:
\* not for an update to an id already in the store, once for an update that
\* creates the id, and never twice for the same id.
C4_AnnouncedOncePerNewId ==
    /\ (Reconciled /\ TranslatedWithId(last.msg.data))
        => IF last.msg.data.id \in Ids(last.before)
           THEN last.toasted = <<>>
           ELSE last.toasted = <<last.msg.data.id>>
    /\ \A i, j \in 1..Len(toasts) : toasts[i] = toasts[j] => i = j

\* C5: after a drivers_list message the store holds exactly the ids of the
\* message's array, in the array's order: every other id is gone.
C5_ListReplacesIds ==
    (Reconciled /\ ListMessage(last.msg.data))
    => /\ Len(drivers) = Len(last.msg.data.drivers)
       /\ \A i \in 1..Len(drivers) : drivers[i].id = last.msg.data.drivers[i].id

\* C5's case: a list naming drivers "3" and "1", in that order, has removed "2".
C5_Witness ==
    /\ Reconciled /\ ListMessage(last.msg.data)
    /\ "2" \in Ids(last.before)
    /\ Len(drivers) = 2 /\ drivers[1].id = "3" /\ drivers[2].id = "1"

\* C6: after a drivers_list message every driver that was in the store and
\* is in the list has prevLocation equal to the location it had immediately
\* before, unless the list's record brings a prevLocation of its own.
C6_ListCarriesPrevLocation ==
    (Reconciled /\ ListMessage(last.msg.data))
    => \A i \in 1..Len(drivers) :
          (drivers[i].id \in Ids(last.before)
              /\ ~Has(Find(last.msg.data.drivers, drivers[i].id), "prevLocation"))
          => /\ Has(drivers[i], "prevLocation")
             /\ drivers[i].prevLocation = Find(last.before, drivers[i].id).location

\* C7: a driver_location_update with a nested driver is reconciled as a
\* patch of that driver (matched by driver.id, taking driver.location) and
\* never as a translated update.
C7_NestedDriverIsPatched ==
    (Reconciled /\ Nested(last.msg.data)
        /\ last.msg.data.driver.id \in Ids(last.before))
    => /\ Len(drivers) = Len(last.before)
       /\ Find(drivers, last.msg.data.driver.id).location
              = last.msg.data.driver.location

\* C8: a structurally invalid update leaves the collection as it was, and no
\* record without a numeric location is ever stored.
C8_InvalidUpdateIsDropped ==
    /\ (last.op = "message" /\ last.msg \in {EmptyUpdate, BadList})
        => drivers = last.before
    /\ \A i \in 1..Len(drivers) : ValidLocation(drivers[i].location)

\* The parsed message is a driver_location_update in the translated shape
\* with numeric lat and lng and no id.
TranslatedNoId(data) ==
    /\ Str(data, "type") = "driver_location_update"
    /\ ~Has(data, "driver")
    /\ Num(data, "lat") # Undefined /\ Num(data, "lng") # Undefined
    /\ Str(data, "id") = ""

\* C21: after a location update is reconciled, for an existing driver or a
\* new one, a record of that driver carries lastUpdate = now, and is not stale.
C21_UpdateStampsLastUpdate ==
    (Reconciled /\ TranslatedWithId(last.msg.data))
    => \E i \in 1..Len(drivers) :
          /\ drivers[i].id = last.msg.data.id
          /\ Has(drivers[i], "lastUpdate")
          /\ drivers[i].lastUpdate = now
          /\ ~MapView_isDriverStale(drivers[i], now)

\* C22: a translated update with an empty name for a driver whose stored
\* name is not empty leaves the stored name as it was; likewise the phone.
C22_EmptyNameKeepsStored ==
    (Reconciled /\ TranslatedWithId(last.msg.data)
        /\ last.msg.data.id \in Ids(last.before))
    => LET id == last.msg.data.id
           old == Find(last.before, id)
           new == Find(drivers, id)
       IN  /\ (Str(last.msg.data, "name") = "" /\ Str(old, "name") # "")
                => Str(new, "name") = Str(old, "name")
           /\ (Str(last.msg.data, "phone") = "" /\ Str(old, "phone") # "")
                => Str(new, "phone") = Str(old, "phone")

\* C23: a translated update for an existing driver leaves that driver's
\* status, vehicle and currentDelivery as they were, and every other driver
\* as it was.
C23_UpdateTouchesOnlyLocationFields ==
    (Reconciled /\ TranslatedWithId(last.msg.data)
        /\ last.msg.data.id \in Ids(last.before))
    => LET id == last.msg.data.id
           old == Find(last.before, id)
           new == Find(drivers, id)
       IN  /\ new.status = old.status
           /\ new.vehicle = old.vehicle
           /\ new.currentDelivery = old.currentDelivery
           /\ Len(drivers) = Len(last.before)
           /\ \A j \in 1..Len(drivers) :
                 last.before[j].id # id => drivers[j] = last.before[j]

\* C24: the id synthesized for a translated update without id differs from
\* every id in the store.
C24_SynthesizedIdIsFresh ==
    (Reconciled /\ TranslatedNoId(last.msg.data))
    => /\ Len(drivers) = Len(last.before) + 1
       /\ drivers[Len(drivers)].id \notin Ids(last.before)

\* C25: a message that is not JSON, or of another type, or a drivers_list
\* without `drivers`, leaves the collection as it was and raises no
\* notification.  (The handler keeps no state of its own: what the next
\* message does depends on the collection alone.)
C25_IgnoredMessageChangesNothing ==
    (last.op = "message" /\ last.msg \in Ignored)
    => /\ drivers = last.before
       /\ last.toasted = <<>>

\* C25's case: a drivers_list without `drivers` was delivered to a store
\* that holds drivers.
C25_Witness ==
    /\ last.op = "message" /\ last.msg = Json([type |-> "drivers_list"])
    /\ Len(drivers) > 0
    /\ nEvents > 1

\* C26: a tick leaves every driver that is not active as it was, keeps the
\* ids in their order, and sets every active driver's prevLocation to the
\* location it had before the tick.
C26_TickMovesOnlyActive ==
    last.op = "tick"
    => /\ Len(drivers) = Len(last.before)
       /\ \A i \in 1..Len(drivers) :
             /\ drivers[i].id = last.before[i].id
             /\ IF last.before[i].status # "active"
                THEN drivers[i] = last.before[i]
                ELSE /\ Has(drivers[i], "prevLocation")
                     /\ drivers[i].prevLocation = last.before[i].location

\* C26's case: a tick over a store with an active driver that moved and a
\* driver that is not active.
C26_Witness ==
    /\ last.op = "tick"
    /\ \E i, j \in 1..Len(drivers) :
          /\ last.before[i].status = "active"
          /\ drivers[i].location # last.before[i].location
          /\ last.before[j].status # "active"

---------------------------------------------------------------------------
(* Claims about the staleness check *)

\* C9: the check is false for a driver without lastUpdate, and otherwise true
\* exactly when now - lastUpdate > 120000 ms; the three copies agree.
C9_StaleIffOlderThanTwoMinutes ==
    staleAnswer.asked
    => LET expected ==
               /\ Has(staleDriver, "lastUpdate")
               /\ staleNow - staleDriver.lastUpdate > 120000
       IN  /\ staleAnswer.map = expected
           /\ staleAnswer.list = expected
           /\ staleAnswer.toolbar = expected

---------------------------------------------------------------------------
(* Claims about the marker animations *)

\* C10: at every moment at most one frame callback is pending per driver id:
\* starting an animation for an id that has one in flight cancels it.
C10_OneAnimationPerDriver ==
    \A f, g \in frames : f.id = g.id => f = g

\* C10's case: the effect started an animation for a driver whose earlier
\* animation was in flight; the earlier one is cancelled, the new one pending.
C10_Witness ==
    /\ animLast.op = "effect"
    /\ \E id \in animLast.inFlight \cap animLast.cancelled :
          \E f \in frames : f.id = id /\ f.startTime = perfNow

\* The record of id that comes last in ds (on an id that is there).
LastOf(ds, id) ==
    ds[CHOOSE i \in 1..Len(ds) :
          ds[i].id = id /\ \A j \in (i + 1)..Len(ds) : ds[j].id # id]

\* C11: when an animation of a marker is started while an earlier one is
\* running, no frame callback of the earlier one runs after the call (it
\* emits no further marker position or path sample), and once no callback is
\* pending for the marker it stands at the target of the latest call.
C11_SupersededEmitsNothing ==
    /\ animLast.op = "frame" => animLast.ran \cap superseded = {}
    /\ \A id \in DOMAIN markers :
          (Running(frames, id) = {} /\ Some(mapDrivers, id))
          => markers[id] = LngLat(LastOf(mapDrivers, id).location)

\* C11's case: driver "1" was animated towards LocB, a frame ran, the list
\* changed again and started an animation towards LocA over the running one;
\* that animation has now run to its end.
C11_Witness ==
    /\ animLast.op = "frame" /\ animLast.ran # {}
    /\ superseded # {}
    /\ nFrames = 3
    /\ mapDrivers = <<ServerDriver("1", LocA)>>
    /\ Running(frames, "1") = {}
    /\ markers["1"] = LngLat(LocA)

\* C12: the sample an animation emits at progress 1 is exactly its target,
\* in both coordinates, whatever the start.
C12_LastSampleIsTarget ==
    floatSample # NoSample => floatSample = floatTo

---------------------------------------------------------------------------
(* Claims about the trace of an animation *)

\* The tenth of the animation a progress value lies in; 10 is the end.
Band(p) == p \div (Duration \div 10)

\* C27: the coordinates an animation pushes to the path lie in different
\* tenths of its progress (the last one, at progress 1, apart), and an
\* animation that has ended for a marker with a path source has pushed its
\* last coordinate.
C27_OneSamplePerTenth ==
    /\ \A i, j \in 1..Len(run.path) :
          (i < j /\ run.path[j] < Duration) => Band(run.path[i]) # Band(run.path[j])
    /\ (run.source /\ run.progress = Duration)
          => (run.path # <<>> /\ run.path[Len(run.path)] = Duration)

\* C28: no frame has a progress above 1, no callback is requested once a
\* frame had progress 1, and an animation that is not cancelled gets there.
C28_AnimationTerminates ==
    /\ [](run.progress <= Duration)
    /\ [](run.progress = Duration => ~run.pending)
    /\ <>(run.cancelled \/ run.progress = Duration)

C28_Witness ==
    /\ run.progress = Duration
    /\ ~run.cancelled
    /\ ~run.pending
    /\ runNow - run.startTime > Duration

---------------------------------------------------------------------------
(* Claims about the map *)

\* The maps the current mount of MapView made.
MapsOf(v) == {i \in 1..Len(v.maps) : v.maps[i].mount = v.mount}

\* C30: while MapView is mounted, mapLoaded = true means map.current is a
\* map, and the mount has made at most one map.
C30_LoadedMapStays ==
    mapView.mounted
    => /\ mapView.mapLoaded => mapView.current # 0
       /\ Cardinality(MapsOf(mapView)) <= 1

---------------------------------------------------------------------------
(* Claims about the WebSocket hook *)

\* C13: when the transport has closed uncleanly N times in a row (N the retry
\* budget) with no open in between, N reconnect attempts have been scheduled
\* and the "failed to reconnect" notice is raised with the Nth unclean close;
\* no further attempt is made until reconnect() is called.
C13_ExhaustedAtNthUncleanClose ==
    /\ (wsLast.op = "close" /\ ~wsLast.clean
            /\ wsHist.streak = ws.reconnectAttempts)
        => /\ wsHist.scheduled = ws.reconnectAttempts
           /\ \E k \in 1..Len(ws.notices) : ws.notices[k] = "failed"
    /\ wsHist.attempts <= ws.reconnectAttempts

\* C14: a close event with wasClean = true sets no reconnect timer and leaves
\* the retry counter as it was, whatever its value.
C14_CleanCloseNeverRetries ==
    (wsLast.op = "close" /\ wsLast.clean)
    => /\ ws.reconnectCount = wsLast.before.reconnectCount
       /\ ws.timers = wsLast.before.timers
       /\ ws.reconnectTimeoutRef = wsLast.before.reconnectTimeoutRef

\* C14's case: a clean close arrives while the counter is above zero and
\* below the budget, where an unclean one would have retried.
C14_Witness ==
    /\ wsLast.op = "close" /\ wsLast.clean
    /\ wsLast.before.reconnectCount > 0
    /\ wsLast.before.reconnectCount < ws.reconnectAttempts

\* C15: sendMessage with no socket, or with a socket that is not OPEN,
\* transmits nothing and reports an error; the payload is not queued: it is
\* never transmitted later.
C15_SendWhenNotOpenIsDropped ==
    /\ (wsLast.op = "send" /\ ~CanSend(wsLast.before))
        => /\ ws.sent = wsLast.before.sent
           /\ ws.notices = <<"cannot send">>
    /\ \A k \in 1..Len(ws.sent) : ws.sent[k].payload \notin wsHist.refused

\* C15's case: a payload was refused while the socket was connecting, and
\* the socket has now opened: nothing was transmitted.
C15_Witness ==
    /\ wsHist.refused # {}
    /\ wsLast.op = "open" /\ CanSend(ws)
    /\ ws.sent = <<>>

\* C16: reconnect() leaves the retry counter at zero and makes exactly one
\* new socket; the close event of the socket it closed changes neither the
\* counter nor the timers.
C16_ReconnectStartsAfresh ==
    /\ wsLast.op = "reconnect"
        => /\ ws.reconnectCount = 0
           /\ ws.urlOk => Made(wsLast.before, ws) = 1
    /\ (wsLast.op = "close" /\ ws.sockets[wsLast.sock].closedBy = "reconnect")
        => /\ ws.reconnectCount = wsLast.before.reconnectCount
           /\ ws.timers = wsLast.before.timers

\* C17: while the hook is mounted, connectionStatus is the state of the
\* current socket.
C17_StatusIsCurrentSocketState ==
    (ws.mounted /\ ws.current # 0)
    => ws.readyState = ws.sockets[ws.current].state

\* C18: no reconnect timer of a torn-down instance is pending (none at all
\* after unmount), and no socket is made on behalf of a torn-down instance.
C18_NothingAfterTeardown ==
    /\ \A t \in ws.timers : ws.mounted /\ t.gen = ws.gen
    /\ \A i \in 1..Len(ws.sockets) : ~ws.sockets[i].orphan

\* C19: a message is reconciled over the store as the step before left it:
\* the outcome is that of the handler deciding on, and merging over, the
\* store at the time of the call.
C19_ReconciledOverLatestStore ==
    last.op = "message"
    => drivers = onMessage(last.msg, last.before, last.before, now, stamps).drivers

\* C20: a re-render of the page while the socket is open neither closes the
\* socket nor makes a new one.
C20_RenderKeepsSocket ==
    (wsLast.op = "render" /\ CanSend(wsLast.before))
    => /\ ws.sockets = wsLast.before.sockets
       /\ ws.current = wsLast.before.current

\* C29: reconnectCount.current is 0 after every open event and is never
\* above reconnectAttempts; nor are the retries scheduled since the last
\* open or reconnect().
C29_CounterResetOnOpen ==
    /\ ws.reconnectCount <= ws.reconnectAttempts
    /\ wsLast.op = "open" => ws.reconnectCount = 0
    /\ wsHist.scheduled <= ws.reconnectAttempts

C29_Witness ==
    /\ wsLast.op = "open"
    /\ wsLast.before.reconnectCount = ws.reconnectAttempts
    /\ ws.reconnectCount = 0

====
